---- MODULE Spec2Model ----
(***************************************************************************)
(* Model of the object-space-parser crate (src/src/lib.rs).                *)
(*                                                                         *)
(* read_object_space_config(path) is                                       *)
(*     Ok(toml::from_str(&read_to_string(toml_path)?)?)                    *)
(* i.e. a pipeline  read_to_string -> toml::from_str -> Ok, where          *)
(* toml::from_str parses the text into TOML values and drives the          *)
(* Deserialize implementations derived for ObjectSpaceConfig,              *)
(* DetectorDescriptor, Detector and Descriptor.  The derived               *)
(* implementations are modelled from the derive attributes of each type    *)
(* (rename_all, tag, deny_unknown_fields) and the declared field types.    *)
(*                                                                         *)
(* A TOML value is a record [t |-> <type name>, v |-> <payload>].          *)
(* A float is represented by the integer number of hundredths it denotes   *)
(* (0.04 is F(4)); the in-memory f64 uses the same unit.                   *)
(***************************************************************************)
EXTENDS Integers, Sequences, FiniteSets, TLC

VARIABLES pc, file, orig, text, calls, result

vars == <<pc, file, orig, text, calls, result>>

(* ---------------------------- bounds ----------------------------------- *)

\* Documents differ from a valid fixture in at most this many places.
MaxDeviations == 2
\* In-memory configurations to encode: width, height in 0..MaxDim.
MaxDim == 2
\* In-memory configurations to encode: lengths and variances in 0..MaxLen.
MaxLen == 2
\* In-memory configurations to encode: variances of length 0..MaxVarLen.
MaxVarLen == 3

(* ---------------------------- TOML values ------------------------------ *)

Absent == [t |-> "absent", v |-> 0]
I(n) == [t |-> "integer", v |-> n]
F(n) == [t |-> "float", v |-> n]
S(s) == [t |-> "string", v |-> s]
B(b) == [t |-> "boolean", v |-> b]
A(seq) == [t |-> "array", v |-> seq]
T(f) == [t |-> "table", v |-> f]

\* The table holding the pairs <<key, value>> whose value is present.
Table(pairs) ==
  LET present == {i \in DOMAIN pairs : pairs[i][2].t # "absent"}
      keys == {pairs[i][1] : i \in present}
  IN  T([k \in keys |-> pairs[CHOOSE i \in present : pairs[i][1] = k][2]])

Has(tbl, k) == k \in DOMAIN tbl.v

(* ---------------------------- results ---------------------------------- *)

NoValue == "none"
NoErr == [type |-> "none", kind |-> "none", field |-> "none"]
Ok(x) == [ok |-> TRUE, value |-> x, err |-> NoErr]
Err(e) == [ok |-> FALSE, value |-> NoValue, err |-> e]

\* std::io::Error, converted into anyhow::Error by the first `?`.
IoError(kind) == [type |-> "io::Error", kind |-> kind, field |-> "none"]
\* toml::de::Error, converted into anyhow::Error by the second `?`.  field is
\* the field a missing-field or unknown-field error names, "none" otherwise.
TomlError(kind, field) == [type |-> "toml::de::Error", kind |-> kind, field |-> field]

SchemaKinds == {"missing field", "unknown field", "unknown variant", "invalid type"}

(* ---------------------------- field decoders --------------------------- *)

\* Variant of DeI64 that also takes a float, truncated to its whole part.
DeI64_Truncating(val) ==
  CASE val.t = "integer" -> Ok(val.v)
    [] val.t = "float" -> Ok(val.v \div 100)
    [] OTHER -> Err(TomlError("invalid type", "none"))

\* i64: only a TOML integer is accepted.
DeI64(val) ==
  IF val.t = "integer" THEN Ok(val.v) ELSE Err(TomlError("invalid type", "none"))

\* f64: a TOML float, or a TOML integer converted to the float of the same
\* value (serde's f64 visitor accepts visit_i64).
DeF64(val) ==
  CASE val.t = "float" -> Ok(val.v)
    [] val.t = "integer" -> Ok(val.v * 100)
    [] OTHER -> Err(TomlError("invalid type", "none"))

\* Vec<f64>: an array whose elements each decode as f64, in order.
DeVecF64(val) ==
  IF val.t # "array" THEN Err(TomlError("invalid type", "none"))
  ELSE IF \E i \in DOMAIN val.v : ~DeF64(val.v[i]).ok
       THEN Err(TomlError("invalid type", "none"))
       ELSE Ok([i \in DOMAIN val.v |-> DeF64(val.v[i]).value])

(* ---------------------------- schema ----------------------------------- *)

\* #[serde(rename_all = "snake_case")] applied to the variant identifiers.
RenameAll(ident) ==
  CASE ident = "Checkerboard" -> "checkerboard"
    [] ident = "Charuco" -> "charuco"
    [] ident = "DetectorDefined" -> "detector_defined"

\* The name of the tag key: #[serde(tag = "type")].
TagKey == "type"

DetectorVariants == <<"Checkerboard", "Charuco">>
DescriptorVariants == <<"DetectorDefined">>

\* The declared fields of each Detector variant, in declaration order.
FieldsOf(variant) ==
  CASE variant = "Checkerboard" -> <<"width", "height", "edge_length", "variances">>
    [] variant = "Charuco" ->
         <<"width", "height", "edge_length", "marker_length", "variances">>

\* Variant of DeField with width and height declared f64.
DeField_DimensionsAsFloat(val, field) ==
  CASE field \in {"width", "height", "edge_length", "marker_length"} -> DeF64(val)
    [] field = "variances" -> DeVecF64(val)

\* Decoding a value into the declared type of field `field`.
DeField(val, field) ==
  CASE field \in {"width", "height"} -> DeI64(val)
    [] field \in {"edge_length", "marker_length"} -> DeF64(val)
    [] field = "variances" -> DeVecF64(val)

Range(seq) == {seq[i] : i \in DOMAIN seq}

\* The first element of seq that is in elems, as a one-element set or {}.
FirstOf(seq, elems) ==
  LET hits == {i \in DOMAIN seq : seq[i] \in elems}
  IN  IF hits = {} THEN {} ELSE {seq[CHOOSE i \in hits : \A j \in hits : i <= j]}

\* The record of a decoded variant, vals[f] being the value of field f.
Build(variant, vals) ==
  IF variant = "Checkerboard"
  THEN [variant |-> variant, width |-> vals["width"], height |-> vals["height"],
        edge_length |-> vals["edge_length"], variances |-> vals["variances"]]
  ELSE [variant |-> variant, width |-> vals["width"], height |-> vals["height"],
        edge_length |-> vals["edge_length"], marker_length |-> vals["marker_length"],
        variances |-> vals["variances"]]

\* Variant of DeDetectorFields with #[serde(default)] fields: an absent field
\* takes the default of its type.
DeDetectorFields_Defaulted(variant, rest) ==
  LET declared == FieldsOf(variant)
      unknown == DOMAIN rest \ Range(declared)
      bad == {f \in DOMAIN rest \cap Range(declared) : ~DeField(rest[f], f).ok}
      firstBad == CHOOSE f \in FirstOf(declared, bad) : TRUE
      vals == [f \in Range(declared) |->
                 IF f \in DOMAIN rest THEN DeField(rest[f], f).value
                 ELSE IF f = "variances" THEN <<>> ELSE 0]
  IN  IF unknown # {}
      THEN Err(TomlError("unknown field", CHOOSE k \in unknown : TRUE))
      ELSE IF bad # {}
      THEN DeField(rest[firstBad], firstBad)
      ELSE Ok(Build(variant, vals))

\* Variant of DeDetectorFields that validates the semantic constraints after
\* decoding and rejects a configuration that violates one.
DeDetectorFields_Validated(variant, rest) ==
  LET declared == FieldsOf(variant)
      unknown == DOMAIN rest \ Range(declared)
      bad == {f \in DOMAIN rest \cap Range(declared) : ~DeField(rest[f], f).ok}
      firstBad == CHOOSE f \in FirstOf(declared, bad) : TRUE
      missing == Range(declared) \ DOMAIN rest
      det == Build(variant, [f \in Range(declared) |-> DeField(rest[f], f).value])
  IN  IF unknown # {}
      THEN Err(TomlError("unknown field", CHOOSE k \in unknown : TRUE))
      ELSE IF bad # {}
      THEN DeField(rest[firstBad], firstBad)
      ELSE IF missing # {}
      THEN Err(TomlError("missing field", CHOOSE f \in FirstOf(declared, missing) : TRUE))
      ELSE IF /\ det.width > 0 /\ det.height > 0 /\ det.edge_length > 0
              /\ Len(det.variances) = 3
              /\ variant = "Charuco" =>
                   det.marker_length > 0 /\ det.marker_length < det.edge_length
      THEN Ok(det)
      ELSE Err(TomlError("invalid value", "none"))

\* A struct variant of Detector decoded from the entries left once the tag is
\* taken out.  deny_unknown_fields: an undeclared key is an error; a declared
\* key whose value has the wrong shape is an error; a declared key that is
\* absent is an error (no field has a default).
DeDetectorFields(variant, rest) ==
  LET declared == FieldsOf(variant)
      unknown == DOMAIN rest \ Range(declared)
      bad == {f \in DOMAIN rest \cap Range(declared) : ~DeField(rest[f], f).ok}
      firstBad == CHOOSE f \in FirstOf(declared, bad) : TRUE
      missing == Range(declared) \ DOMAIN rest
  IN  IF unknown # {}
      THEN Err(TomlError("unknown field", CHOOSE k \in unknown : TRUE))
      ELSE IF bad # {}
      THEN DeField(rest[firstBad], firstBad)
      ELSE IF missing # {}
      THEN Err(TomlError("missing field", CHOOSE f \in FirstOf(declared, missing) : TRUE))
      ELSE Ok(Build(variant, [f \in Range(declared) |-> DeField(rest[f], f).value]))

\* Variant of DeVariantTag without rename_all: the tag is compared with the
\* variant identifier itself.
DeVariantTag_Unrenamed(val, variants) ==
  IF val.t # "string" THEN Err(TomlError("invalid type", "none"))
  ELSE LET named == {i \in DOMAIN variants : variants[i] = val.v}
       IN  IF named = {} THEN Err(TomlError("unknown variant", "none"))
           ELSE Ok(variants[CHOOSE i \in named : TRUE])

\* The variant a tag value names: a string equal to the snake_case name of a
\* variant.  Any other string is an unknown variant, any other value an
\* invalid type.
DeVariantTag(val, variants) ==
  IF val.t # "string" THEN Err(TomlError("invalid type", "none"))
  ELSE LET named == {i \in DOMAIN variants : RenameAll(variants[i]) = val.v}
       IN  IF named = {} THEN Err(TomlError("unknown variant", "none"))
           ELSE Ok(variants[CHOOSE i \in named : TRUE])

\* The entries of a table other than the tag.
WithoutTag(tbl) == [k \in DOMAIN tbl.v \ {TagKey} |-> tbl.v[k]]

\* Detector: internally tagged enum, decoded here from a table: the tag
\* selects the variant, the other entries are its fields.  The inputs put a
\* table or a scalar at this place; a scalar is an invalid type.
DeDetector(val) ==
  IF val.t # "table" THEN Err(TomlError("invalid type", "none"))
  ELSE IF ~Has(val, TagKey) THEN Err(TomlError("missing field", TagKey))
  ELSE LET tag == DeVariantTag(val.v[TagKey], DetectorVariants)
       IN  IF ~tag.ok THEN tag ELSE DeDetectorFields(tag.value, WithoutTag(val))

\* Descriptor: internally tagged enum with the single unit variant
\* DetectorDefined.  serde decodes a unit variant of an internally tagged enum
\* by consuming whatever entries follow the tag (IgnoredAny), so
\* deny_unknown_fields has nothing to reject here.
DeDescriptor(val) ==
  IF val.t # "table" THEN Err(TomlError("invalid type", "none"))
  ELSE IF ~Has(val, TagKey) THEN Err(TomlError("missing field", TagKey))
  ELSE DeVariantTag(val.v[TagKey], DescriptorVariants)

\* DetectorDescriptor: struct with deny_unknown_fields and the two required
\* fields detector and descriptor.
DeDetectorDescriptor(val) ==
  IF val.t # "table" THEN Err(TomlError("invalid type", "none"))
  ELSE LET unknown == DOMAIN val.v \ {"detector", "descriptor"}
           det == DeDetector(val.v["detector"])
           desc == DeDescriptor(val.v["descriptor"])
       IN  IF unknown # {}
           THEN Err(TomlError("unknown field", CHOOSE k \in unknown : TRUE))
           ELSE IF Has(val, "detector") /\ ~det.ok THEN det
           ELSE IF Has(val, "descriptor") /\ ~desc.ok THEN desc
           ELSE IF ~Has(val, "detector") THEN Err(TomlError("missing field", "detector"))
           ELSE IF ~Has(val, "descriptor")
           THEN Err(TomlError("missing field", "descriptor"))
           ELSE Ok([detector |-> det.value, descriptor |-> desc.value])

\* ObjectSpaceConfig: struct with the required field camera and no
\* deny_unknown_fields, so any other top-level key is skipped.
DeObjectSpaceConfig(tree) ==
  IF ~Has(tree, "camera") THEN Err(TomlError("missing field", "camera"))
  ELSE LET cam == DeDetectorDescriptor(tree.v["camera"])
       IN  IF ~cam.ok THEN cam ELSE Ok([camera |-> cam.value])

\* Variant of FromStr that reports a decoding failure of the content before
\* the well-formedness of the text.
FromStr_DecodeFirst(txt) ==
  IF ~DeObjectSpaceConfig(txt.tree).ok THEN DeObjectSpaceConfig(txt.tree)
  ELSE IF ~txt.wf THEN Err(TomlError("syntax", "none"))
  ELSE DeObjectSpaceConfig(txt.tree)

\* toml::from_str: the text is parsed as TOML first; text that is not
\* well-formed is a parse error, and only a parsed document is decoded.
FromStr(txt) ==
  IF ~txt.wf THEN Err(TomlError("syntax", "none")) ELSE DeObjectSpaceConfig(txt.tree)

(* ---------------------------- encoding --------------------------------- *)

\* The derived Serialize of Detector: the tag first, then the variant's
\* fields under their declared names; i64 as integer, f64 as float,
\* Vec<f64> as an array of floats.
SerField(det, field) ==
  CASE field \in {"width", "height"} -> I(det[field])
    [] field \in {"edge_length", "marker_length"} -> F(det[field])
    [] field = "variances" -> A([i \in DOMAIN det.variances |-> F(det.variances[i])])

\* Variant of SerDetector without rename_all: the tag is the variant
\* identifier itself.
SerDetector_Unrenamed(det) ==
  LET declared == FieldsOf(det.variant)
  IN  Table(<<<<TagKey, S(det.variant)>>>>
            \o [i \in DOMAIN declared |-> <<declared[i], SerField(det, declared[i])>>])

SerDetector(det) ==
  LET declared == FieldsOf(det.variant)
  IN  Table(<<<<TagKey, S(RenameAll(det.variant))>>>>
            \o [i \in DOMAIN declared |-> <<declared[i], SerField(det, declared[i])>>])

SerDescriptor(desc) == Table(<<<<TagKey, S(RenameAll(desc))>>>>)

SerObjectSpaceConfig(cfg) ==
  Table(<< <<"camera",
             Table(<< <<"detector", SerDetector(cfg.camera.detector)>>,
                      <<"descriptor", SerDescriptor(cfg.camera.descriptor)>> >>)>> >>)

\* The TOML text of a configuration.
TomlToString(cfg) == [wf |-> TRUE, tree |-> SerObjectSpaceConfig(cfg)]

(* ---------------------------- inputs ----------------------------------- *)

\* A document is described by the value written at each place of the file
\* layout ("slot"); Absent means the key is not written.  Here marks a table
\* whose content is given by the slots below it.
Here == [t |-> "table", v |-> 0]

Slots ==
  {"file", "syntax", "top_camera", "top_extra", "cam_detector", "cam_descriptor",
   "cam_extra", "det_type", "det_width", "det_height", "det_edge_length",
   "det_marker_length", "det_variances", "det_extra", "desc_type", "desc_extra"}

\* fixtures/checkerboard_detector.toml
CheckerboardFixture ==
  [file |-> S("ok"), syntax |-> S("ok"),
   top_camera |-> Here, top_extra |-> Absent,
   cam_detector |-> Here, cam_descriptor |-> Here, cam_extra |-> Absent,
   det_type |-> S("checkerboard"), det_width |-> I(8), det_height |-> I(6),
   det_edge_length |-> F(4), det_marker_length |-> Absent,
   det_variances |-> A(<<F(1), F(2), F(3)>>), det_extra |-> Absent,
   desc_type |-> S("detector_defined"), desc_extra |-> Absent]

\* fixtures/charuco_detector.toml
CharucoFixture ==
  [CheckerboardFixture EXCEPT !.det_type = S("charuco"), !.det_marker_length = F(3)]

\* The other values tried at each slot.
Alternatives(slot) ==
  CASE slot = "file" -> {S("NotFound"), S("PermissionDenied")}
    [] slot = "syntax" -> {S("bad")}
    [] slot = "top_camera" -> {Absent, I(1)}
    [] slot = "top_extra" -> {S("x")}
    [] slot = "cam_detector" -> {Absent, I(1)}
    [] slot = "cam_descriptor" -> {Absent, S("detector_defined")}
    [] slot = "cam_extra" -> {I(1)}
    [] slot = "det_type" ->
         {Absent, S("checkerboard"), S("charuco"), S("Checkerboard"), S("CHARUCO"), I(0)}
    [] slot = "det_width" -> {Absent, I(1), I(0), F(800), S("8")}
    [] slot = "det_height" -> {Absent, I(0 - 1), B(TRUE), A(<<I(6)>>)}
    [] slot = "det_edge_length" ->
         {Absent, F(5), F(0), I(1), S("0.04"), B(TRUE), A(<<F(4)>>), T(<<>>)}
    [] slot = "det_marker_length" -> {Absent, F(3), F(5), F(0), S("0.03"), T(<<>>)}
    [] slot = "det_variances" ->
         {Absent, A(<<F(1), F(2)>>), A(<<I(1), I(2), I(3)>>), A(<<F(1), S("x"), F(3)>>),
          A(<<>>), F(1)}
    [] slot = "det_extra" -> {I(1)}
    [] slot = "desc_type" ->
         {Absent, S("DetectorDefined"), S("checkerboard"), I(0)}
    [] slot = "desc_extra" -> {I(1)}

\* One deviation: a slot and the value written there instead.
Edit == UNION {{<<slot, alt>> : alt \in Alternatives(slot)} : slot \in Slots}

\* The slot assignment sl with the edits applied in order.
RECURSIVE Edited(_, _)
Edited(sl, edits) ==
  IF edits = <<>> THEN sl
  ELSE Edited([sl EXCEPT ![Head(edits)[1]] = Head(edits)[2]], Tail(edits))

\* The value at a table slot: the table built from the slots below it, or the
\* scalar written in its place, or Absent.
Sub(mark, tbl) == IF mark.t = "table" THEN tbl ELSE mark

DetectorOf(sl) ==
  Table(<< <<"type", sl.det_type>>, <<"width", sl.det_width>>,
           <<"height", sl.det_height>>, <<"edge_length", sl.det_edge_length>>,
           <<"marker_length", sl.det_marker_length>>,
           <<"variances", sl.det_variances>>, <<"foo", sl.det_extra>> >>)

DescriptorOf(sl) == Table(<< <<"type", sl.desc_type>>, <<"foo", sl.desc_extra>> >>)

CameraOf(sl) ==
  Table(<< <<"detector", Sub(sl.cam_detector, DetectorOf(sl))>>,
           <<"descriptor", Sub(sl.cam_descriptor, DescriptorOf(sl))>>,
           <<"foo", sl.cam_extra>> >>)

DocumentOf(sl) ==
  Table(<< <<"camera", Sub(sl.top_camera, CameraOf(sl))>>, <<"package", sl.top_extra>> >>)

\* The file at the path: whether it can be read, and its text.
FileOf(sl) ==
  [status |-> sl.file.v, text |-> [wf |-> sl.syntax.v = "ok", tree |-> DocumentOf(sl)]]

NoFile == [status |-> "NotFound", text |-> [wf |-> FALSE, tree |-> T(<<>>)]]

\* In-memory configurations of both variants.
Seqs(elems, n) == UNION {[1..k -> elems] : k \in 0..n}

Detectors ==
  {[variant |-> "Checkerboard", width |-> w, height |-> h, edge_length |-> e,
    variances |-> vs]
     : w \in 0..MaxDim, h \in 1..MaxDim, e \in 0..MaxLen, vs \in Seqs(1..MaxLen, MaxVarLen)}
  \cup
  {[variant |-> "Charuco", width |-> w, height |-> h, edge_length |-> e,
    marker_length |-> m, variances |-> vs]
     : w \in 0..MaxDim, h \in 1..MaxDim, e \in 0..MaxLen, m \in 0..MaxLen,
       vs \in Seqs(1..MaxLen, MaxVarLen)}

Configs == {[camera |-> [detector |-> d, descriptor |-> "DetectorDefined"]] : d \in Detectors}

NoConfig == [some |-> FALSE, cfg |-> "none"]
SomeConfig(c) == [some |-> TRUE, cfg |-> c]
NoText == [wf |-> FALSE, tree |-> "none"]
NoResult == [ok |-> FALSE, value |-> NoValue, err |-> NoErr]

(* ---------------------------- the program ------------------------------ *)

\* Either a file (or no file) is at the path and read_object_space_config is
\* called on it, or an in-memory configuration is first encoded to the path.
Init ==
  /\ text = NoText
  /\ calls = <<>>
  /\ result = NoResult
  /\ \/ /\ pc = "read"
        /\ orig = NoConfig
        /\ \E base \in {CheckerboardFixture, CharucoFixture}, k \in 0..MaxDeviations :
             \E edits \in [1..k -> Edit] : file = FileOf(Edited(base, edits))
     \/ /\ pc = "encode"
        /\ \E c \in Configs : orig = SomeConfig(c)
        /\ file = NoFile

\* The configuration is serialized (derive(Serialize)) and written to the path.
Encode ==
  /\ pc = "encode"
  /\ file' = [status |-> "ok", text |-> TomlToString(orig.cfg)]
  /\ pc' = "read"
  /\ UNCHANGED <<orig, text, calls, result>>

\* Variant of ReadToString that goes on with an empty text when the file
\* cannot be read (unwrap_or_default in place of `?`).
ReadToString_OrDefault ==
  /\ pc = "read"
  /\ calls' = Append(calls, "read_to_string")
  /\ text' = IF file.status = "ok" THEN file.text ELSE [wf |-> TRUE, tree |-> T(<<>>)]
  /\ pc' = "parse"
  /\ UNCHANGED <<file, orig, result>>

\* read_to_string(toml_path)? : the text of the file, or the io::Error returned
\* at once by `?`.
ReadToString ==
  /\ pc = "read"
  /\ calls' = Append(calls, "read_to_string")
  /\ IF file.status = "ok"
     THEN /\ text' = file.text
          /\ pc' = "parse"
          /\ UNCHANGED result
     ELSE /\ result' = Err(IoError(file.status))
          /\ pc' = "done"
          /\ UNCHANGED text
  /\ UNCHANGED <<file, orig>>

\* Ok(toml::from_str(&text)?) : the decoded configuration, or the
\* toml::de::Error returned by `?`.
ParseAndDecode ==
  /\ pc = "parse"
  /\ calls' = Append(calls, "toml::from_str")
  /\ result' = FromStr(text)
  /\ pc' = "done"
  /\ UNCHANGED <<file, orig, text>>

Next == Encode \/ ReadToString \/ ParseAndDecode

Spec == Init /\ [][Next]_vars

(* ======================================================================= *)
(* Properties                                                              *)
(* ======================================================================= *)

Loaded == pc = "done"
Readable == file.status = "ok"
\* The file was read and its text is well-formed TOML.
Parsed == Readable /\ file.text.wf
Doc == file.text.tree

ResourceError == ~result.ok /\ result.err.type = "io::Error"
SyntaxError == ~result.ok /\ result.err.type = "toml::de::Error" /\ result.err.kind = "syntax"
SchemaError ==
  ~result.ok /\ result.err.type = "toml::de::Error" /\ result.err.kind \in SchemaKinds

IsTable(val) == val.t = "table"
CameraIsTable == Has(Doc, "camera") /\ IsTable(Doc.v["camera"])
Camera == Doc.v["camera"]
DetectorIsTable == CameraIsTable /\ Has(Camera, "detector") /\ IsTable(Camera.v["detector"])
DescriptorIsTable ==
  CameraIsTable /\ Has(Camera, "descriptor") /\ IsTable(Camera.v["descriptor"])
DetectorBlock == Camera.v["detector"]
DescriptorBlock == Camera.v["descriptor"]

\* The wire format of section 6 of the specification.
WireDetectorTags == {"checkerboard", "charuco"}
WireDescriptorTags == {"detector_defined"}
WireFields(tag) ==
  IF tag = "checkerboard" THEN {"width", "height", "edge_length", "variances"}
  ELSE {"width", "height", "edge_length", "marker_length", "variances"}

GoodTag(block, tags) ==
  Has(block, "type") /\ block.v["type"].t = "string" /\ block.v["type"].v \in tags
DetectorTagged == DetectorIsTable /\ GoodTag(DetectorBlock, WireDetectorTags)
DescriptorTagged == DescriptorIsTable /\ GoodTag(DescriptorBlock, WireDescriptorTags)
DetectorTag == DetectorBlock.v["type"].v
DetectorKeys == DOMAIN DetectorBlock.v \ {"type"}
Written(k) == DetectorBlock.v[k]
Decoded == result.value.camera.detector

IsInt(val) == val.t = "integer"
IsFloat(val) == val.t = "float"
IsFloatArray(val) == val.t = "array" /\ \A i \in DOMAIN val.v : IsFloat(val.v[i])

\* Exactly the declared keys at every level.
ExactKeys ==
  /\ DOMAIN Doc.v = {"camera"}
  /\ CameraIsTable /\ DOMAIN Camera.v = {"detector", "descriptor"}
  /\ DetectorTagged /\ DetectorKeys = WireFields(DetectorTag)
  /\ DescriptorTagged /\ DOMAIN DescriptorBlock.v = {"type"}

\* Every detector field has the shape of its declared type.
ExactTypes ==
  /\ IsInt(Written("width")) /\ IsInt(Written("height"))
  /\ IsFloat(Written("edge_length"))
  /\ DetectorTag = "charuco" => IsFloat(Written("marker_length"))
  /\ IsFloatArray(Written("variances"))

\* The semantic constraints of section 3 of the specification.
SemanticallyValid ==
  /\ Written("width").v > 0 /\ Written("height").v > 0
  /\ Written("edge_length").v > 0
  /\ Len(Written("variances").v) = 3
  /\ DetectorTag = "charuco" =>
       Written("marker_length").v > 0 /\ Written("marker_length").v < Written("edge_length").v

\* The decoded configuration carries the values written in the document.
DecodedAsWritten ==
  /\ result.ok
  /\ Decoded.variant = (IF DetectorTag = "checkerboard" THEN "Checkerboard" ELSE "Charuco")
  /\ result.value.camera.descriptor = "DetectorDefined"
  /\ Decoded.width = Written("width").v /\ Decoded.height = Written("height").v
  /\ Decoded.edge_length = Written("edge_length").v
  /\ DetectorTag = "charuco" => Decoded.marker_length = Written("marker_length").v
  /\ Len(Decoded.variances) = Len(Written("variances").v)
  /\ \A i \in DOMAIN Decoded.variances : Decoded.variances[i] = Written("variances").v[i].v

(* ---- C1 ---- *)

\* C1: a document that parses and has a camera table but also another
\* top-level key is rejected with a schema error, never decoded.
C1_UnknownTopLevelKeyRejected ==
  (Loaded /\ Parsed /\ Has(Doc, "camera") /\ DOMAIN Doc.v # {"camera"}) => SchemaError

(* ---- C2 ---- *)

CameraHasExtraKey == CameraIsTable /\ DOMAIN Camera.v \ {"detector", "descriptor"} # {}
DetectorHasExtraKey == DetectorTagged /\ DetectorKeys \ WireFields(DetectorTag) # {}
DescriptorHasExtraKey == DescriptorTagged /\ DOMAIN DescriptorBlock.v # {"type"}

\* C2: a key outside the declared field set of the camera table, of the
\* selected detector variant or of the detector_defined descriptor makes the
\* load fail with a schema error.
C2_UnknownNestedKeyRejected ==
  (Loaded /\ Parsed /\ (CameraHasExtraKey \/ DetectorHasExtraKey \/ DescriptorHasExtraKey))
    => SchemaError

\* The part of C2 that the code bears out: the camera table and the detector
\* block reject an undeclared key.
UnknownCameraOrDetectorKeyRejected ==
  (Loaded /\ Parsed /\ (CameraHasExtraKey \/ DetectorHasExtraKey)) => SchemaError

(* ---- C3 ---- *)

RequiredKeyMissing ==
  \/ ~Has(Doc, "camera")
  \/ CameraIsTable /\ (~Has(Camera, "detector") \/ ~Has(Camera, "descriptor"))
  \/ DetectorTagged /\ WireFields(DetectorTag) \ DetectorKeys # {}

\* C3: a parsed document lacking a required key at any level is rejected with
\* a schema error and no configuration is returned; a document with no camera
\* key is rejected as missing field camera.
C3_MissingRequiredKeyRejected ==
  /\ (Loaded /\ Parsed /\ RequiredKeyMissing) => (SchemaError /\ ~result.ok)
  /\ (Loaded /\ Parsed /\ ~Has(Doc, "camera")) =>
       result = Err(TomlError("missing field", "camera"))

C3_Witness ==
  /\ Loaded /\ Parsed /\ DetectorTagged /\ "edge_length" \notin DetectorKeys
  /\ result = Err(TomlError("missing field", "edge_length"))

(* ---- C4 ---- *)

BadDetectorTag == DetectorIsTable /\ ~GoodTag(DetectorBlock, WireDetectorTags)
BadDescriptorTag == DescriptorIsTable /\ ~GoodTag(DescriptorBlock, WireDescriptorTags)

C5_ValidDocumentDecodes ==
  (Loaded /\ Parsed /\ ExactKeys /\ ExactTypes /\ SemanticallyValid) => DecodedAsWritten

C5_Witness ==
  /\ Loaded /\ Parsed /\ ExactKeys /\ ExactTypes /\ SemanticallyValid
  /\ DetectorTag = "charuco" /\ result.ok
  /\ Decoded.width = 8 /\ Decoded.marker_length = 3 /\ Decoded.variances = <<1, 2, 3>>

(* ---- C6 ---- *)

ConfigValid(det) ==
  /\ det.width > 0 /\ det.height > 0 /\ det.edge_length > 0
  /\ Len(det.variances) = 3
  /\ det.variant = "Charuco" => det.marker_length > 0 /\ det.marker_length < det.edge_length

\* C6 (as stated): every configuration returned by a successful load
\* satisfies the semantic constraints.
C6_SemanticConstraintsEnforced == (Loaded /\ result.ok) => ConfigValid(Decoded)

\* C6 (amended): the load checks structure only; a structurally well-formed
\* document that violates a semantic constraint is returned as a
\* configuration carrying the values as written.
C6_StructureOnly ==
  (Loaded /\ Parsed /\ ExactKeys /\ ExactTypes /\ ~SemanticallyValid) => DecodedAsWritten

C6_Witness ==
  /\ Loaded /\ Parsed /\ ExactKeys /\ ExactTypes
  /\ DetectorTag = "charuco"
  /\ Written("edge_length") = F(4) /\ Written("marker_length") = F(5)
  /\ result.ok /\ Decoded.edge_length = 4 /\ Decoded.marker_length = 5

(* ---- C7 ---- *)

\* C7: when the file cannot be read the load returns the io error, nothing is
\* parsed or decoded, and the error is not of the parser's error type.
C7_UnreadableIsResourceError ==
  (Loaded /\ ~Readable) =>
    /\ result = Err(IoError(file.status))
    /\ calls = <<"read_to_string">>
    /\ text = NoText
    /\ ~SyntaxError /\ ~SchemaError

C7_Witness ==
  /\ Loaded /\ file.status = "NotFound" /\ ResourceError /\ calls = <<"read_to_string">>

(* ---- C8 ---- *)

\* C8: a load has one terminal result, and a failure is that of the earliest
\* failing stage: unreadable -> io error; read but malformed -> syntax error;
\* a schema error only for text that was read and parsed.
C8_EarliestStageFails ==
  /\ pc # "done" => (~result.ok /\ result.err = NoErr)
  /\ Loaded => (result.ok \/ ResourceError \/ SyntaxError \/ SchemaError)
  /\ (Loaded /\ ~Readable) => ResourceError
  /\ (Loaded /\ Readable /\ ~file.text.wf) => (SyntaxError /\ ~SchemaError)
  /\ (Loaded /\ SchemaError) => Parsed
  /\ (Loaded /\ result.ok) => Parsed

C8_Witness ==
  /\ Loaded /\ Readable /\ ~file.text.wf /\ ~Has(Doc, "camera") /\ SyntaxError
  /\ calls = <<"read_to_string", "toml::from_str">>

(* ---- C9 ---- *)

\* C9: encoding a valid configuration to text and loading the text succeeds
\* and yields the original value; the text uses the snake_case keys and tags.
C9_RoundTrip ==
  (Loaded /\ orig.some /\ ConfigValid(orig.cfg.camera.detector)) =>
    /\ result.ok /\ result.value = orig.cfg
    /\ ExactKeys /\ ExactTypes

C9_Witness ==
  /\ Loaded /\ orig.some /\ ConfigValid(orig.cfg.camera.detector)
  /\ orig.cfg.camera.detector.variant = "Charuco"
  /\ result.ok /\ result.value = orig.cfg
  /\ DetectorTag = "charuco"

(* ---- C10 ---- *)

\* The shapes the claim lists as mismatching the declared type of field k.
MisShaped(k) ==
  /\ k \in DetectorKeys
  /\ CASE k \in {"edge_length", "marker_length"} ->
            Written(k).t \in {"string", "boolean", "array", "table"}
       [] k \in {"width", "height"} -> ~IsInt(Written(k))
       [] k = "variances" -> ~IsFloatArray(Written(k))
       [] OTHER -> FALSE

\* As MisShaped, with an integer element of variances counted as well-shaped.
MisShapedBeyondIntegers(k) ==
  /\ MisShaped(k)
  /\ k = "variances" =>
       \/ Written(k).t # "array"
       \/ \E i \in DOMAIN Written(k).v : Written(k).v[i].t \notin {"float", "integer"}

====
